---------------------------- MODULE Spec2Model ----------------------------
(***************************************************************************)
(* A model of casadi/casadi_math.hpp: the catalogue of built-in scalar     *)
(* operations (UnaryOperation<I> / BinaryOperation<I>), the per-type       *)
(* static tables of casadi_math<T> and the three dispatch routines         *)
(* funNew, derNew and derFNew, for T = double.                             *)
(*                                                                         *)
(* Numbers.  A double is modelled by a tagged tuple:                       *)
(*   <<"q", n, d>>     the double nearest the rational n/d (d > 0, lowest  *)
(*                     terms); operands are dyadic, so the arithmetic the  *)
(*                     routines chain on them is exact                     *)
(*   <<"inf", s>>      +infinity (s = 1) or -infinity (s = -1)             *)
(*   <<"nan">>         a NaN                                               *)
(*   <<"fn", g, a>>    the finite, irrational result of libm's g at a      *)
(*   <<"pow", a, b>>   the finite, irrational result of pow(a, b)          *)
(*   <<"const", c>>    a named constant (M_PI)                             *)
(*   <<"neg", a>>, <<"bin", o, a, b>>  arithmetic on such results          *)
(* The sign of a zero is not modelled: -0.0 and 0.0 compare equal in C++   *)
(* and both are <<"q", 0, 1>> here.                                        *)
(***************************************************************************)
EXTENDS Integers, Sequences, FiniteSets, TLC

----------------------------------------------------------------------------
(* Bounds of the model *)

\* operands range over 0 and +-2^k for k in -MaxExp..MaxExp
MaxExp == 1

----------------------------------------------------------------------------
(* enum Operation *)

ADD == 0
SUB == 1
MUL == 2
DIV == 3
NEG == 4
EXP == 5
LOG == 6
POW == 7
CONSTPOW == 8
SQRT == 9
SIN == 10
COS == 11
TAN == 12
ASIN == 13
ACOS == 14
ATAN == 15
STEP == 16
FLOOR == 17
CEIL == 18
EQUALITY == 19
ERF == 20
FMIN == 21
FMAX == 22
INV == 23
SINH == 24
COSH == 25
TANH == 26
PRINTME == 27
NUM_BUILT_IN_OPS == 28

\* the op codes that have an explicit specialisation of BinaryOperation
BinarySpecialised ==
  {ADD, SUB, MUL, DIV, POW, CONSTPOW, EQUALITY, FMIN, FMAX, PRINTME}

\* the op codes that have an explicit specialisation of UnaryOperation
UnarySpecialised ==
  {NEG, EXP, LOG, SQRT, SIN, COS, TAN, ASIN, ACOS, ATAN, STEP, FLOOR, CEIL,
   ERF, INV, SINH, COSH, TANH}

----------------------------------------------------------------------------
(* double arithmetic *)

Abs(n) == IF n < 0 THEN -n ELSE n

RECURSIVE GCD(_, _)
GCD(a, b) == IF b = 0 THEN a ELSE GCD(b, a % b)

\* the rational n/d in lowest terms, d # 0
Q(n, d) ==
  LET g == GCD(Abs(n), Abs(d))
      s == IF d < 0 THEN -1 ELSE 1
  IN  <<"q", (s * n) \div g, (s * d) \div g>>

Zero == Q(0, 1)
One == Q(1, 1)
Two == Q(2, 1)
PInf == <<"inf", 1>>
NInf == <<"inf", -1>>
NaN == <<"nan">>
M_PI == <<"const", "M_PI">>

IsQ(v) == v[1] = "q"
IsInf(v) == v[1] = "inf"
IsNaN(v) == v[1] = "nan"
\* a finite value that is no exact rational
IsSym(v) == ~IsQ(v) /\ ~IsInf(v) /\ ~IsNaN(v)
IsZero(v) == v = Zero
\* sign of a rational or an infinity
Sgn(v) ==
  IF IsInf(v) THEN v[2]
  ELSE IF v[2] > 0 THEN 1 ELSE IF v[2] < 0 THEN -1 ELSE 0
Inf(s) == IF s > 0 THEN PInf ELSE NInf

\* unary minus
Neg(a) ==
  IF IsQ(a) THEN Q(-a[2], a[3])
  ELSE IF IsInf(a) THEN Inf(-a[2])
  ELSE IF IsNaN(a) THEN NaN
  ELSE IF a[1] = "neg" THEN a[2]
  ELSE <<"neg", a>>

\* a + b
Plus(a, b) ==
  IF IsNaN(a) \/ IsNaN(b) THEN NaN
  ELSE IF IsQ(a) /\ IsQ(b) THEN Q(a[2] * b[3] + b[2] * a[3], a[3] * b[3])
  ELSE IF IsInf(a) /\ IsInf(b) THEN (IF a = b THEN a ELSE NaN)
  ELSE IF IsInf(a) THEN a
  ELSE IF IsInf(b) THEN b
  ELSE IF IsZero(a) THEN b
  ELSE IF IsZero(b) THEN a
  ELSE <<"bin", "+", a, b>>

\* a - b
Minus(a, b) ==
  IF IsNaN(a) \/ IsNaN(b) THEN NaN
  ELSE IF IsQ(a) /\ IsQ(b) THEN Q(a[2] * b[3] - b[2] * a[3], a[3] * b[3])
  ELSE IF IsInf(a) /\ IsInf(b) THEN (IF a = b THEN NaN ELSE a)
  ELSE IF IsInf(a) THEN a
  ELSE IF IsInf(b) THEN Neg(b)
  ELSE IF IsZero(b) THEN a
  ELSE IF IsZero(a) THEN Neg(b)
  ELSE <<"bin", "-", a, b>>

\* a * b
Times(a, b) ==
  IF IsNaN(a) \/ IsNaN(b) THEN NaN
  ELSE IF IsQ(a) /\ IsQ(b) THEN Q(a[2] * b[2], a[3] * b[3])
  ELSE IF (IsInf(a) /\ IsZero(b)) \/ (IsZero(a) /\ IsInf(b)) THEN NaN
  ELSE IF (IsInf(a) \/ IsQ(a)) /\ (IsInf(b) \/ IsQ(b))
    THEN Inf(Sgn(a) * Sgn(b))
  ELSE IF IsZero(a) \/ IsZero(b) THEN Zero
  ELSE IF a = One THEN b
  ELSE IF b = One THEN a
  ELSE <<"bin", "*", a, b>>

\* a / b
Divide(a, b) ==
  IF IsNaN(a) \/ IsNaN(b) THEN NaN
  ELSE IF IsQ(a) /\ IsQ(b) THEN
    (IF b[2] # 0 THEN Q(a[2] * b[3], a[3] * b[2])
     ELSE IF a[2] = 0 THEN NaN
     ELSE Inf(Sgn(a)))
  ELSE IF IsInf(a) /\ IsInf(b) THEN NaN
  ELSE IF IsInf(a) /\ IsQ(b) THEN Inf(a[2] * (IF b[2] < 0 THEN -1 ELSE 1))
  ELSE IF IsInf(b) /\ (IsQ(a) \/ IsSym(a)) THEN Zero
  ELSE IF IsZero(a) THEN Zero
  ELSE IF b = One THEN a
  ELSE <<"bin", "/", a, b>>

\* a comparison's bool converted to double
FromBool(b) == IF b THEN One ELSE Zero

\* a <= b, a >= b, a == b on doubles (every comparison with a NaN is false)
LessEq(a, b) ==
  IF IsNaN(a) \/ IsNaN(b) THEN FALSE
  ELSE IF IsQ(a) /\ IsQ(b) THEN a[2] * b[3] <= b[2] * a[3]
  ELSE IF IsInf(a) /\ IsInf(b) THEN a[2] <= b[2]
  ELSE IF IsInf(a) THEN a[2] < 0
  ELSE IF IsInf(b) THEN b[2] > 0
  ELSE a = b
GreaterEq(a, b) == LessEq(b, a)
Equal(a, b) == ~IsNaN(a) /\ ~IsNaN(b) /\ a = b

\* operator! applied to a double: true iff it compares equal to zero
LogicalNot(a) == FromBool(IsZero(a))

----------------------------------------------------------------------------
(* <cmath> on doubles *)

IsSquare(n) == n >= 0 /\ \E k \in 0..n : k * k = n
ISqrt(n) == CHOOSE k \in 0..n : k * k = n

RECURSIVE IPow(_, _)
\* n^k for an integer n and k >= 0
IPow(n, k) == IF k = 0 THEN 1 ELSE n * IPow(n, k - 1)

\* a result of libm that is no exact rational
Fn(g, a) == <<"fn", g, a>>

\* sqrt
Sqrt(a) ==
  IF IsNaN(a) THEN NaN
  ELSE IF IsQ(a) THEN
    (IF a[2] < 0 THEN NaN
     ELSE IF IsSquare(a[2]) /\ IsSquare(a[3]) THEN Q(ISqrt(a[2]), ISqrt(a[3]))
     ELSE Fn("sqrt", a))
  ELSE IF IsInf(a) THEN (IF a[2] > 0 THEN PInf ELSE NaN)
  ELSE Fn("sqrt", a)

\* exp
Exp(a) ==
  IF IsNaN(a) THEN NaN
  ELSE IF IsZero(a) THEN One
  ELSE IF IsInf(a) THEN (IF a[2] > 0 THEN PInf ELSE Zero)
  ELSE Fn("exp", a)

\* log
Log(a) ==
  IF IsNaN(a) THEN NaN
  ELSE IF IsQ(a) THEN
    (IF a[2] < 0 THEN NaN
     ELSE IF a[2] = 0 THEN NInf
     ELSE IF a = One THEN Zero
     ELSE Fn("log", a))
  ELSE IF IsInf(a) THEN (IF a[2] > 0 THEN PInf ELSE NaN)
  ELSE Fn("log", a)

\* an odd function g of libm with g(0) = 0 and a finite value elsewhere:
\* sin, tan, atan, erf, sinh, tanh on finite arguments
OddAtZero(g, a) ==
  IF IsNaN(a) THEN NaN
  ELSE IF IsZero(a) THEN Zero
  ELSE Fn(g, a)

Sin(a) == IF IsInf(a) THEN NaN ELSE OddAtZero("sin", a)
Tan(a) == IF IsInf(a) THEN NaN ELSE OddAtZero("tan", a)
Atan(a) == OddAtZero("atan", a)
Erf(a) == IF IsInf(a) THEN Q(a[2], 1) ELSE OddAtZero("erf", a)
Sinh(a) == IF IsInf(a) THEN a ELSE OddAtZero("sinh", a)
Tanh(a) == IF IsInf(a) THEN Q(a[2], 1) ELSE OddAtZero("tanh", a)

\* cos and cosh: 1 at 0
Cos(a) ==
  IF IsNaN(a) \/ IsInf(a) THEN NaN
  ELSE IF IsZero(a) THEN One
  ELSE Fn("cos", a)
Cosh(a) ==
  IF IsNaN(a) THEN NaN
  ELSE IF IsInf(a) THEN PInf
  ELSE IF IsZero(a) THEN One
  ELSE Fn("cosh", a)

\* |a| > 1 for a rational a
OutsideUnit(a) == IsQ(a) /\ Abs(a[2]) > a[3]

\* asin and acos: NaN outside [-1, 1]
Asin(a) ==
  IF IsNaN(a) \/ IsInf(a) \/ OutsideUnit(a) THEN NaN
  ELSE IF IsZero(a) THEN Zero
  ELSE Fn("asin", a)
Acos(a) ==
  IF IsNaN(a) \/ IsInf(a) \/ OutsideUnit(a) THEN NaN
  ELSE IF a = One THEN Zero
  ELSE Fn("acos", a)

\* floor and ceil
Floor(a) == IF IsQ(a) THEN Q(a[2] \div a[3], 1) ELSE a
Ceil(a) == IF IsQ(a) THEN Q(-((-a[2]) \div a[3]), 1) ELSE a

\* fmin and fmax: a NaN operand is treated as missing
Fmin(a, b) ==
  IF IsNaN(a) THEN b
  ELSE IF IsNaN(b) THEN a
  ELSE IF LessEq(a, b) THEN a ELSE b
Fmax(a, b) ==
  IF IsNaN(a) THEN b
  ELSE IF IsNaN(b) THEN a
  ELSE IF GreaterEq(a, b) THEN a ELSE b

\* x^k for a rational x # 0 and an integer k
QPowInt(x, k) ==
  IF k >= 0 THEN Q(IPow(x[2], k), IPow(x[3], k))
  ELSE Q(IPow(x[3], -k), IPow(x[2], -k))

RECURSIVE QPow(_, _)
\* x^y for rationals x > 0, x # 1: exact when y is an integer, through exact
\* square roots when they exist, otherwise an irrational result
QPow(x, y) ==
  IF y[3] = 1 THEN QPowInt(x, y[2])
  ELSE IF IsSquare(x[2]) /\ IsSquare(x[3])
    THEN QPow(Q(ISqrt(x[2]), ISqrt(x[3])), Q(2 * y[2], y[3]))
  ELSE <<"pow", x, y>>

\* pow
Pow(x, y) ==
  IF IsZero(y) \/ x = One THEN One
  ELSE IF IsNaN(x) \/ IsNaN(y) THEN NaN
  ELSE IF IsQ(x) /\ IsQ(y) THEN
    (IF x[2] = 0 THEN (IF y[2] > 0 THEN Zero ELSE PInf)
     ELSE IF x[2] < 0 THEN (IF y[3] = 1 THEN QPowInt(x, y[2]) ELSE NaN)
     ELSE QPow(x, y))
  ELSE <<"pow", x, y>>

\* timesTwo and square
timesTwo(x) == Plus(x, x)
square(x) == Times(x, x)

----------------------------------------------------------------------------
(* The operation catalogue: UnaryOperation<I> and BinaryOperation<I>.      *)
(* The output array d of a derivative routine is the pair <<d[0], d[1]>>;  *)
(* a routine returns the array as it leaves it.                            *)

\* UnaryOperation<I>::f0_is_zero()
UnaryOperation_f0_is_zero(I) ==
  CASE I = NEG -> TRUE
    [] I = EXP -> FALSE
    [] I = LOG -> FALSE
    [] I = SQRT -> TRUE
    [] I = SIN -> TRUE
    [] I = COS -> FALSE
    [] I = TAN -> TRUE
    [] I = ASIN -> TRUE
    [] I = ACOS -> FALSE
    [] I = ATAN -> TRUE
    [] I = STEP -> FALSE
    [] I = FLOOR -> TRUE
    [] I = CEIL -> TRUE
    [] I = ERF -> TRUE
    [] I = INV -> FALSE
    [] I = SINH -> TRUE
    [] I = COSH -> FALSE
    [] I = TANH -> TRUE
    [] OTHER -> FALSE

\* UnaryOperation<I>::ndeps()
UnaryOperation_ndeps(I) == 1

\* UnaryOperation<I>::isCommutative()
UnaryOperation_isCommutative(I) == TRUE

\* UnaryOperation<I>::fcn(x, f): the value assigned to f
UnaryOperation_fcn(I, x) ==
  CASE I = NEG -> Neg(x)
    [] I = EXP -> Exp(x)
    [] I = LOG -> Log(x)
    [] I = SQRT -> Sqrt(x)
    [] I = SIN -> Sin(x)
    [] I = COS -> Cos(x)
    [] I = TAN -> Tan(x)
    [] I = ASIN -> Asin(x)
    [] I = ACOS -> Acos(x)
    [] I = ATAN -> Atan(x)
    [] I = STEP -> FromBool(GreaterEq(x, Zero))
    [] I = FLOOR -> Floor(x)
    [] I = CEIL -> Ceil(x)
    [] I = ERF -> Erf(x)
    [] I = INV -> Divide(One, x)
    [] I = SINH -> Sinh(x)
    [] I = COSH -> Cosh(x)
    [] I = TANH -> Tanh(x)

\* UnaryOperation<I>::der(x, f, d): assigns d[0] and leaves d[1] alone
UnaryOperation_der(I, x, f, d) ==
  LET d0 ==
    CASE I = NEG -> Neg(One)
      [] I = EXP -> f
      [] I = LOG -> Divide(One, x)
      [] I = SQRT -> Divide(One, timesTwo(f))
      [] I = SIN -> Cos(x)
      [] I = COS -> Neg(Sin(x))
      [] I = TAN -> Divide(One, square(Cos(x)))
      [] I = ASIN -> Divide(One, Sqrt(Minus(One, Times(x, x))))
      [] I = ACOS -> Divide(Neg(One), Sqrt(Minus(One, Times(x, x))))
      [] I = ATAN -> Divide(One, Plus(One, Times(x, x)))
      [] I = STEP -> Zero
      [] I = FLOOR -> Zero
      [] I = CEIL -> Zero
      [] I = ERF ->
           Times(Divide(Two, Sqrt(M_PI)), Exp(Times(Neg(x), x)))
      [] I = INV -> Times(Neg(f), f)
      [] I = SINH -> Cosh(x)
      [] I = COSH -> Neg(Sinh(x))
      [] I = TANH -> Minus(One, Times(f, f))
  IN  [d EXCEPT ![1] = d0]

\* the primary template's BinaryOperation<I>::fcn(x, y, f)
PrimaryTemplate_fcn(I, x, y) == UnaryOperation_fcn(I, x)

\* mutant of PrimaryTemplate_der: the statement d[1]=0 is missing
PrimaryTemplate_der_KeepsD1(I, x, y, f, d) == UnaryOperation_der(I, x, f, d)

\* the primary template's BinaryOperation<I>::der(x, y, f, d)
PrimaryTemplate_der(I, x, y, f, d) ==
  [UnaryOperation_der(I, x, f, d) EXCEPT ![2] = Zero]

\* BinaryOperation<I>::f00_is_zero()
BinaryOperation_f00_is_zero(I) ==
  CASE I = ADD -> TRUE
    [] I = SUB -> TRUE
    [] I = MUL -> TRUE
    [] I = DIV -> FALSE
    [] I = POW -> FALSE
    [] I = CONSTPOW -> FALSE
    [] I = EQUALITY -> FALSE
    [] I = FMIN -> TRUE
    [] I = FMAX -> TRUE
    [] I = PRINTME -> FALSE
    [] OTHER -> UnaryOperation_f0_is_zero(I)

\* BinaryOperation<I>::f0x_is_zero()
BinaryOperation_f0x_is_zero(I) ==
  CASE I = ADD -> FALSE
    [] I = SUB -> FALSE
    [] I = MUL -> TRUE
    [] I = DIV -> TRUE
    [] I = POW -> FALSE
    [] I = CONSTPOW -> FALSE
    [] I = EQUALITY -> FALSE
    [] I = FMIN -> FALSE
    [] I = FMAX -> FALSE
    [] I = PRINTME -> FALSE
    [] OTHER -> UnaryOperation_f0_is_zero(I)

\* BinaryOperation<I>::fx0_is_zero()
BinaryOperation_fx0_is_zero(I) ==
  CASE I = ADD -> FALSE
    [] I = SUB -> FALSE
    [] I = MUL -> TRUE
    [] I = DIV -> FALSE
    [] I = POW -> FALSE
    [] I = CONSTPOW -> FALSE
    [] I = EQUALITY -> FALSE
    [] I = FMIN -> FALSE
    [] I = FMAX -> FALSE
    [] I = PRINTME -> FALSE
    [] OTHER -> FALSE

\* mutant of BinaryOperation_ndeps: the primary template returns 2
BinaryOperation_ndeps_PrimaryTwo(I) == 2

\* BinaryOperation<I>::ndeps()
BinaryOperation_ndeps(I) ==
  IF I \in BinarySpecialised THEN 2 ELSE UnaryOperation_ndeps(I)

\* mutant of BinaryOperation_isCommutative: EQUALITY returns true
BinaryOperation_isCommutative_EqualityTrue(I) ==
  I \notin {SUB, DIV, POW, CONSTPOW, PRINTME}

\* BinaryOperation<I>::isCommutative()
BinaryOperation_isCommutative(I) ==
  CASE I = ADD -> TRUE
    [] I = SUB -> FALSE
    [] I = MUL -> TRUE
    [] I = DIV -> FALSE
    [] I = POW -> FALSE
    [] I = CONSTPOW -> FALSE
    [] I = EQUALITY -> FALSE
    [] I = FMIN -> TRUE
    [] I = FMAX -> TRUE
    [] I = PRINTME -> FALSE
    [] OTHER -> TRUE

\* BinaryOperation<I>::fcn(x, y, f): the value assigned to f
BinaryOperation_fcn(I, x, y) ==
  CASE I = ADD -> Plus(x, y)
    [] I = SUB -> Minus(x, y)
    [] I = MUL -> Times(x, y)
    [] I = DIV -> Divide(x, y)
    [] I = POW -> Pow(x, y)
    [] I = CONSTPOW -> Pow(x, y)
    [] I = EQUALITY -> FromBool(Equal(x, y))
    [] I = FMIN -> Fmin(x, y)
    [] I = FMAX -> Fmax(x, y)
    [] I = PRINTME -> x
    [] OTHER -> PrimaryTemplate_fcn(I, x, y)

\* BinaryOperation<I>::der(x, y, f, d): the array d as the routine leaves it
BinaryOperation_der(I, x, y, f, d) ==
  CASE I = ADD -> <<One, One>>
    [] I = SUB -> <<One, Neg(One)>>
    [] I = MUL -> <<y, x>>
    [] I = DIV -> <<Divide(One, y), Divide(Neg(f), y)>>
    [] I = POW ->
         <<Times(y, Pow(x, Minus(y, One))), Times(Log(x), f)>>
    [] I = CONSTPOW -> <<Times(y, Pow(x, Minus(y, One))), Zero>>
    [] I = EQUALITY -> <<Zero, Zero>>
    [] I = FMIN ->
         <<FromBool(LessEq(x, y)), LogicalNot(FromBool(LessEq(x, y)))>>
    [] I = FMAX ->
         <<FromBool(GreaterEq(x, y)), LogicalNot(FromBool(GreaterEq(x, y)))>>
    [] I = PRINTME -> <<One, Zero>>
    [] OTHER -> PrimaryTemplate_der(I, x, y, f, d)

----------------------------------------------------------------------------
(* Printing.  A std::ostream is the text written to it so far, a string;   *)
(* stream << s appends s.                                                  *)

\* the arguments (pre, post) of printRoutinesUnary in UnaryOperation<I>
printRoutinesUnary_args(I) ==
  CASE I = NEG -> <<"(-", ")">>
    [] I = EXP -> <<"exp(", ")">>
    [] I = LOG -> <<"log(", ")">>
    [] I = SQRT -> <<"sqrt(", ")">>
    [] I = SIN -> <<"sin(", ")">>
    [] I = COS -> <<"cos(", ")">>
    [] I = TAN -> <<"tan(", ")">>
    [] I = ASIN -> <<"asin(", ")">>
    [] I = ACOS -> <<"acos(", ")">>
    [] I = ATAN -> <<"atan(", ")">>
    [] I = STEP -> <<"(", ">=0)">>
    [] I = FLOOR -> <<"floor(", ")">>
    [] I = CEIL -> <<"ceil(", ")">>
    [] I = ERF -> <<"erf(", ")">>
    [] I = INV -> <<"(1/", ")">>
    [] I = SINH -> <<"sinh(", ")">>
    [] I = COSH -> <<"cosh(", ")">>
    [] I = TANH -> <<"tanh(", ")">>

\* the arguments (pre, sep, post) of printRoutines in BinaryOperation<I>
printRoutines_args(I) ==
  CASE I = ADD -> <<"(", "+", ")">>
    [] I = SUB -> <<"(", "-", ")">>
    [] I = MUL -> <<"(", "*", ")">>
    [] I = DIV -> <<"(", "/", ")">>
    [] I = POW -> <<"pow(", ",", ")">>
    [] I = CONSTPOW -> <<"pow(", ",", ")">>
    [] I = EQUALITY -> <<"(", "==", ")">>
    [] I = FMIN -> <<"fmin(", ",", ")">>
    [] I = FMAX -> <<"fmax(", ",", ")">>
    [] I = PRINTME -> <<"printme(", ",", ")">>

\* UnaryOperation<I>::print, printPre, printPost as printRoutinesUnary
\* defines them: the stream as the routine leaves it
UnaryOperation_print(I, stream, x) ==
  stream \o printRoutinesUnary_args(I)[1] \o x \o printRoutinesUnary_args(I)[2]
UnaryOperation_printPre(I, stream) == stream \o printRoutinesUnary_args(I)[1]
UnaryOperation_printPost(I, stream) == stream \o printRoutinesUnary_args(I)[2]

\* BinaryOperation<I>::printPre, printSep, printPost: as printRoutines
\* defines them in a specialisation, else the primary template's
BinaryOperation_printPre(I, stream) ==
  IF I \in BinarySpecialised THEN stream \o printRoutines_args(I)[1]
  ELSE UnaryOperation_printPre(I, stream)
\* mutant of BinaryOperation_printSep: the primary template writes ","
BinaryOperation_printSep_PrimaryComma(I, stream) ==
  IF I \in BinarySpecialised THEN stream \o printRoutines_args(I)[2]
  ELSE stream \o ","

BinaryOperation_printSep(I, stream) ==
  IF I \in BinarySpecialised THEN stream \o printRoutines_args(I)[2]
  ELSE stream
BinaryOperation_printPost(I, stream) ==
  IF I \in BinarySpecialised THEN stream \o printRoutines_args(I)[3]
  ELSE UnaryOperation_printPost(I, stream)

\* mutant of BinaryOperation_print: the primary template writes y as well
BinaryOperation_print_WritesY(I, stream, x, y) ==
  IF I \in BinarySpecialised
    THEN stream \o printRoutines_args(I)[1] \o x \o printRoutines_args(I)[2]
           \o y \o printRoutines_args(I)[3]
    ELSE BinaryOperation_printPost(I,
           UnaryOperation_printPre(I, stream) \o x \o y)

\* BinaryOperation<I>::print(stream, x, y)
BinaryOperation_print(I, stream, x, y) ==
  IF I \in BinarySpecialised
    THEN stream \o printRoutines_args(I)[1] \o x \o printRoutines_args(I)[2]
           \o y \o printRoutines_args(I)[3]
    ELSE BinaryOperation_printPost(I, UnaryOperation_printPre(I, stream) \o x)

\* a call through a pointer ptr = <<"BinaryOperation", I, member>> held in
\* print (printFunT) or in printPre, printSep, printPost (printCompFunT)
CallPrintFunT(ptr, stream, x, y) == BinaryOperation_print(ptr[2], stream, x, y)
CallPrintCompFunT(ptr, stream) ==
  CASE ptr[3] = "printPre" -> BinaryOperation_printPre(ptr[2], stream)
    [] ptr[3] = "printSep" -> BinaryOperation_printSep(ptr[2], stream)
    [] ptr[3] = "printPost" -> BinaryOperation_printPost(ptr[2], stream)

----------------------------------------------------------------------------
(* The diagnostic of PRINTME: the explicit specialisation                  *)
(* BinaryOperation<PRINTME>::fcn<double> that a build with WITH_PRINTME    *)
(* defined has.  std::cout, like any stream, is the text written to it.    *)

Digit == <<"0", "1", "2", "3", "4", "5", "6", "7", "8", "9">>

\* the decimal digits of a natural number
RECURSIVE Decimal(_)
Decimal(n) ==
  IF n < 10 THEN Digit[n + 1] ELSE Decimal(n \div 10) \o Digit[(n % 10) + 1]

\* the decimal digits of the fraction n/d, 0 <= n < d, d a power of two
RECURSIVE Fraction(_, _)
Fraction(n, d) ==
  IF n = 0 THEN ""
  ELSE Digit[((10 * n) \div d) + 1] \o Fraction((10 * n) % d, d)

\* stream << v for a double v, in the stream's default format (%g with
\* precision 6), on values that need no more than six significant digits
FormatDouble(v) ==
  IF IsNaN(v) THEN "nan"
  ELSE IF IsInf(v) THEN (IF v[2] < 0 THEN "-inf" ELSE "inf")
  ELSE LET a == Abs(v[2])
           whole == Decimal(a \div v[3])
           frac == Fraction(a % v[3], v[3])
       IN  (IF v[2] < 0 THEN "-" ELSE "") \o whole
             \o (IF frac = "" THEN "" ELSE "." \o frac)

\* std::cout << "|> " << y << " : " << x << std::endl
DiagnosticLine(y, x) ==
  "|> " \o FormatDouble(y) \o " : " \o FormatDouble(x) \o "\n"

----------------------------------------------------------------------------
(* The static tables of casadi_math<T>.  A std::vector of n entries is a   *)
(* function on 0..n-1; a function pointer is the name of the function it   *)
(* points to, <<class template, I, member>>, and Null is the null pointer. *)

Null == <<"null">>
EmptyVec == [i \in {} |-> Null]
\* std::vector<T> ret(n, v)
Vector(n, v) == [i \in 0..(n - 1) |-> v]
\* ret.size()
Size(vec) == Cardinality(DOMAIN vec)

\* mutant of PrintFunAssigned: the line ret[PRINTME] = ... is missing
PrintFunAssigned_NoPrintme ==
  {ADD, SUB, MUL, DIV, NEG, EXP, LOG, POW, CONSTPOW, SQRT, SIN, COS, TAN,
   ASIN, ACOS, ATAN, STEP, FLOOR, CEIL, EQUALITY, ERF, FMIN, FMAX, INV,
   SINH, COSH, TANH}

\* the entries the body of the macro populatePrintFun assigns
PrintFunAssigned ==
  {ADD, SUB, MUL, DIV, NEG, EXP, LOG, POW, CONSTPOW, SQRT, SIN, COS, TAN,
   ASIN, ACOS, ATAN, STEP, FLOOR, CEIL, EQUALITY, ERF, FMIN, FMAX, INV,
   SINH, COSH, TANH, PRINTME}

\* BinaryOperation<I>::printFunName, as the macro's argument names it: the
\* address of a print routine, or the value of the call ndeps() or
\* isCommutative()
MemberOf(I, printFunName) ==
  CASE printFunName = "ndeps()" -> BinaryOperation_ndeps(I)
    [] printFunName = "isCommutative()" -> BinaryOperation_isCommutative(I)
    [] OTHER -> <<"BinaryOperation", I, printFunName>>

\* the function the macro populatePrintFun(getPrintFunName, printFunName,
\* Type) defines; zero is Type's value of 0
populatePrintFun(printFunName, zero) ==
  LET ret == Vector(NUM_BUILT_IN_OPS, zero)
  IN  [i \in DOMAIN ret |->
         IF i \in PrintFunAssigned THEN MemberOf(i, printFunName) ELSE ret[i]]

getPrintFun == populatePrintFun("print", Null)
getPrintPreFun == populatePrintFun("printPre", Null)
getPrintSepFun == populatePrintFun("printSep", Null)
getPrintPostFun == populatePrintFun("printPost", Null)
getNdeps == populatePrintFun("ndeps()", 0)
\* mutant of getCommutative: the macro is invoked with ndeps() again, whose
\* ints convert to bool
getCommutative_FromNdeps ==
  LET ret == populatePrintFun("ndeps()", 0)
  IN  [i \in DOMAIN ret |-> ret[i] # 0]
getCommutative == populatePrintFun("isCommutative()", FALSE)

\* the entries getFunE assigns
FunEAssigned ==
  {ADD, SUB, MUL, DIV, NEG, EXP, LOG, POW, CONSTPOW, SQRT, SIN, COS, TAN,
   ASIN, ACOS, ATAN, STEP, FLOOR, CEIL, EQUALITY, ERF, FMIN, FMAX, INV,
   SINH, COSH, TANH, PRINTME}

\* mutant of getFunE: ret[SUB] = BinaryOperationE<ADD>::fcn<T>
getFunE_SubAsAdd ==
  LET ret0 == Vector(NUM_BUILT_IN_OPS, Null)
      ret == [i \in DOMAIN ret0 |->
                IF i \in FunEAssigned
                  THEN <<"BinaryOperationE", IF i = SUB THEN ADD ELSE i, "fcn">>
                  ELSE ret0[i]]
  IN  [threw |-> \E i \in 0..(Size(ret) - 1) : ~(ret[i] # Null), ret |-> ret]

\* getFunE: the vector built, and whether a casadi_assert on it threw
getFunE ==
  LET ret0 == Vector(NUM_BUILT_IN_OPS, Null)
      ret == [i \in DOMAIN ret0 |->
                IF i \in FunEAssigned THEN <<"BinaryOperationE", i, "fcn">>
                ELSE ret0[i]]
  IN  [threw |-> \E i \in 0..(Size(ret) - 1) : ~(ret[i] # Null), ret |-> ret]

\* the entries getF00_is_zero, getF0x_is_zero and getFx0_is_zero assign
F00Assigned ==
  {ADD, SUB, MUL, DIV, NEG, EXP, LOG, POW, CONSTPOW, SQRT, SIN, COS, TAN,
   ASIN, ACOS, ATAN, STEP, FLOOR, CEIL, EQUALITY, ERF, FMIN, FMAX, INV,
   SINH, COSH, TANH, PRINTME}
F0xAssigned ==
  {ADD, SUB, MUL, DIV, NEG, EXP, LOG, POW, CONSTPOW, SQRT, SIN, COS, TAN,
   ASIN, ACOS, ATAN, STEP, FLOOR, CEIL, EQUALITY, ERF, FMIN, FMAX, INV,
   SINH, COSH, TANH, PRINTME}
Fx0Assigned ==
  {ADD, SUB, MUL, DIV, NEG, EXP, LOG, POW, CONSTPOW, SQRT, SIN, COS, TAN,
   ASIN, ACOS, ATAN, STEP, FLOOR, CEIL, EQUALITY, ERF, FMIN, FMAX, INV,
   SINH, COSH, TANH, PRINTME}

getF00_is_zero ==
  LET ret == Vector(NUM_BUILT_IN_OPS, FALSE)
  IN  [i \in DOMAIN ret |->
         IF i \in F00Assigned THEN BinaryOperation_f00_is_zero(i) ELSE ret[i]]

\* mutant of getF0x_is_zero: the body of getF00_is_zero, pasted unchanged
getF0x_is_zero_FromF00 ==
  LET ret == Vector(NUM_BUILT_IN_OPS, FALSE)
  IN  [i \in DOMAIN ret |->
         IF i \in F0xAssigned THEN BinaryOperation_f00_is_zero(i) ELSE ret[i]]

getF0x_is_zero ==
  LET ret == Vector(NUM_BUILT_IN_OPS, FALSE)
  IN  [i \in DOMAIN ret |->
         IF i \in F0xAssigned THEN BinaryOperation_f0x_is_zero(i) ELSE ret[i]]

getFx0_is_zero ==
  LET ret == Vector(NUM_BUILT_IN_OPS, FALSE)
  IN  [i \in DOMAIN ret |->
         IF i \in Fx0Assigned THEN BinaryOperation_fx0_is_zero(i) ELSE ret[i]]

\* the static data members of casadi_math<T>
TableNames ==
  {"print", "printPre", "printSep", "printPost", "funE", "f00_is_zero",
   "f0x_is_zero", "fx0_is_zero", "ndeps", "isCommutative"}

\* the initialiser of each static data member: [threw, ret]
Initialiser(t) ==
  CASE t = "print" -> [threw |-> FALSE, ret |-> getPrintFun]
    [] t = "printPre" -> [threw |-> FALSE, ret |-> getPrintPreFun]
    [] t = "printSep" -> [threw |-> FALSE, ret |-> getPrintSepFun]
    [] t = "printPost" -> [threw |-> FALSE, ret |-> getPrintPostFun]
    [] t = "funE" -> getFunE
    [] t = "f00_is_zero" -> [threw |-> FALSE, ret |-> getF00_is_zero]
    [] t = "f0x_is_zero" -> [threw |-> FALSE, ret |-> getF0x_is_zero]
    [] t = "fx0_is_zero" -> [threw |-> FALSE, ret |-> getFx0_is_zero]
    [] t = "ndeps" -> [threw |-> FALSE, ret |-> getNdeps]
    [] t = "isCommutative" -> [threw |-> FALSE, ret |-> getCommutative]

\* whether the function that builds table t ends with the loop of
\* casadi_assert(ret[i]!=0)
AssertsPopulated(t) == t = "funE"

----------------------------------------------------------------------------
(* The dispatch routines.  The reference parameters x, y and f are the     *)
(* addresses xa, ya and fa of cells of the memory m, so that they may      *)
(* alias; d is the caller's output array, held apart from m.  A routine    *)
(* returns the memory and the array as it leaves them, and the calls it    *)
(* made to the catalogue: [routine, I, x, y, f], f being the value written *)
(* by a fcn or received by a der.                                          *)

\* the case labels of the switch of funNew, derNew and derFNew
funNew_cases ==
  {ADD, SUB, MUL, DIV, NEG, EXP, LOG, POW, CONSTPOW, SQRT, SIN, COS, TAN,
   ASIN, ACOS, ATAN, STEP, FLOOR, CEIL, EQUALITY, ERF, FMIN, FMAX, INV,
   SINH, COSH, TANH, PRINTME}
derNew_cases ==
  {ADD, SUB, MUL, DIV, NEG, EXP, LOG, POW, CONSTPOW, SQRT, SIN, COS, TAN,
   ASIN, ACOS, ATAN, STEP, FLOOR, CEIL, EQUALITY, ERF, FMIN, FMAX, INV,
   SINH, COSH, TANH, PRINTME}
derFNew_cases ==
  {ADD, SUB, MUL, DIV, NEG, EXP, LOG, POW, CONSTPOW, SQRT, SIN, COS, TAN,
   ASIN, ACOS, ATAN, STEP, FLOOR, CEIL, EQUALITY, ERF, FMIN, FMAX, INV,
   SINH, COSH, TANH, PRINTME}

\* mutant of funNew_fcn: case FMIN calls BinaryOperation<FMAX>::fcn
funNew_fcn_FminAsFmax(op) == IF op = FMIN THEN FMAX ELSE op

\* the I of the BinaryOperation<I>::fcn that funNew's case op calls
funNew_fcn(op) == op

\* mutant of derNew_der: case SUB calls BinaryOperation<ADD>::der too
derNew_der_SubAsAdd(op) ==
  IF op = PRINTME THEN TANH ELSE IF op = SUB THEN ADD ELSE op

\* the I of the BinaryOperation<I>::der that derNew's case op calls
derNew_der(op) == IF op = PRINTME THEN TANH ELSE op

\* the I of the BinaryOperation<I>::fcn and of the BinaryOperation<I>::der
\* that derFNew's case op calls
derFNew_fcn(op) == op
\* mutant of derFNew_der: case PRINTME calls BinaryOperation<PRINTME>::der,
\* while derNew's still calls BinaryOperation<TANH>::der
derFNew_der_PrintmeOwn(op) == op
\* mutant of derFNew_der: case FMAX calls BinaryOperation<FMIN>::der
derFNew_der_FmaxAsFmin(op) ==
  IF op = PRINTME THEN TANH ELSE IF op = FMAX THEN FMIN ELSE op
derFNew_der(op) == IF op = PRINTME THEN TANH ELSE op

FcnCall(I, x, y, f) == [routine |-> "fcn", I |-> I, x |-> x, y |-> y, f |-> f]
DerCall(I, x, y, f) == [routine |-> "der", I |-> I, x |-> x, y |-> y, f |-> f]

\* whether the build defines WITH_PRINTME
VARIABLE WITH_PRINTME

\* the call BinaryOperation<I>::fcn(x, y, f) for T = double on the cells
\* xa, ya, fa of m: the memory as the call leaves it and the text it
\* writes to std::cout.  Every fcn is one assignment to f, but for
\* fcn<double> of PRINTME in a build with WITH_PRINTME, which assigns f and
\* then writes y and x as they are by then.
BinaryOperation_fcn_double(I, xa, ya, fa, m) ==
  IF I = PRINTME /\ WITH_PRINTME
    THEN LET m1 == [m EXCEPT ![fa] = m[xa]]
         IN  [mem |-> m1, out |-> DiagnosticLine(m1[ya], m1[xa])]
    ELSE [mem |-> [m EXCEPT ![fa] = BinaryOperation_fcn(I, m[xa], m[ya])],
          out |-> ""]

\* the address of derFNew's local ff, and of BinaryOperationE<I>::fcn's
\* local ret: a cell apart from the caller's
LocalCell == 0

\* the memory m with a local holding v0
WithLocal(m, v0) ==
  [a \in DOMAIN m \cup {LocalCell} |-> IF a = LocalCell THEN v0 ELSE m[a]]

\* the call BinaryOperationE<I>::fcn(x, y), f being the value it returns
FcnECall(I, x, y, f) ==
  [routine |-> "fcnE", I |-> I, x |-> x, y |-> y, f |-> f]

\* BinaryOperationE<I>::fcn(x, y): the value returned, the text written to
\* std::cout and the catalogue routines run, itself first and then the
\* BinaryOperation<I>::fcn(x, y, ret) it calls; ret0 is the indeterminate
\* value of the local T ret
BinaryOperationE_fcn(I, x, y, ret0) ==
  LET r == BinaryOperation_fcn_double(I, 1, 2, LocalCell,
                                      WithLocal(<<x, y>>, ret0))
      ret == r.mem[LocalCell]
  IN  [ret |-> ret, out |-> r.out,
       trace |-> <<FcnECall(I, x, y, ret), FcnCall(I, x, y, ret)>>]

\* a call through a pointer ptr = <<"BinaryOperationE", I, "fcn">> held in
\* funE (funTE)
CallFunTE(ptr, x, y, ret0) == BinaryOperationE_fcn(ptr[2], x, y, ret0)

\* casadi_math<T>::funNew(op, x, y, f)
funNew(op, xa, ya, fa, m, d) ==
  IF op \in funNew_cases
    THEN LET r == BinaryOperation_fcn_double(funNew_fcn(op), xa, ya, fa, m)
         IN  [mem |-> r.mem, d |-> d, out |-> r.out,
              trace |-> <<FcnCall(funNew_fcn(op), m[xa], m[ya], r.mem[fa])>>]
    ELSE [mem |-> m, d |-> d, out |-> "", trace |-> <<>>]

\* casadi_math<T>::derNew(op, x, y, f, d)
derNew(op, xa, ya, fa, m, d) ==
  IF op \in derNew_cases
    THEN [mem |-> m,
          d |-> BinaryOperation_der(derNew_der(op), m[xa], m[ya], m[fa], d),
          out |-> "",
          trace |-> <<DerCall(derNew_der(op), m[xa], m[ya], m[fa])>>]
    ELSE [mem |-> m, d |-> d, out |-> "", trace |-> <<>>]

\* mutant of derFNew: the derivative routine is handed the caller's f, not
\* the temporary ff
derFNew_StaleF(op, xa, ya, fa, m, d, ff0) ==
  IF op \in derFNew_cases
    THEN LET r == BinaryOperation_fcn_double(derFNew_fcn(op), xa, ya,
                                             LocalCell, WithLocal(m, ff0))
             ff == r.mem[LocalCell]
         IN  [mem |-> [m EXCEPT ![fa] = ff],
              d |-> BinaryOperation_der(derFNew_der(op), m[xa], m[ya],
                                        m[fa], d),
              out |-> r.out,
              trace |-> <<FcnCall(derFNew_fcn(op), m[xa], m[ya], ff),
                          DerCall(derFNew_der(op), m[xa], m[ya], m[fa])>>]
    ELSE [mem |-> [m EXCEPT ![fa] = ff0], d |-> d, out |-> "",
          trace |-> <<>>]

\* mutant of derFNew: no temporary; fcn writes f itself and der then reads
\* x, y and f from the caller's cells
derFNew_NoTemp(op, xa, ya, fa, m, d, ff0) ==
  IF op \in derFNew_cases
    THEN LET r == BinaryOperation_fcn_double(derFNew_fcn(op), xa, ya, fa, m)
             m1 == r.mem
         IN  [mem |-> m1,
              d |-> BinaryOperation_der(derFNew_der(op), m1[xa], m1[ya],
                                        m1[fa], d),
              out |-> r.out,
              trace |-> <<FcnCall(derFNew_fcn(op), m[xa], m[ya], m1[fa]),
                          DerCall(derFNew_der(op), m1[xa], m1[ya], m1[fa])>>]
    ELSE [mem |-> m, d |-> d, out |-> "", trace |-> <<>>]

\* casadi_math<T>::derFNew(op, x, y, f, d); ff0 is the indeterminate value
\* the local T ff holds before it is assigned
derFNew(op, xa, ya, fa, m, d, ff0) ==
  IF op \in derFNew_cases
    THEN LET r == BinaryOperation_fcn_double(derFNew_fcn(op), xa, ya,
                                             LocalCell, WithLocal(m, ff0))
             ff == r.mem[LocalCell]
         IN  [mem |-> [m EXCEPT ![fa] = ff],
              d |-> BinaryOperation_der(derFNew_der(op), m[xa], m[ya], ff, d),
              out |-> r.out,
              trace |-> <<FcnCall(derFNew_fcn(op), m[xa], m[ya], ff),
                          DerCall(derFNew_der(op), m[xa], m[ya], ff)>>]
    ELSE [mem |-> [m EXCEPT ![fa] = ff0], d |-> d, out |-> "",
          trace |-> <<>>]

----------------------------------------------------------------------------
(* The program *)

VARIABLES
  casadi_math,   \* the static data members of casadi_math<double>, by name
  initialised,   \* the members whose dynamic initialisation has completed
  asserted,      \* the members built by a function that asserted ret[i]!=0
  terminated,    \* an initialiser threw: std::terminate was called
  phase,         \* "static_init" before main is entered, "main" after
  lastRead,      \* the last read of a table by a client: [table, size]
  call,          \* the dispatch call just made: routine, op, addresses, operands
  mem,           \* the memory cells of that call, as it left them
  d,             \* the output array d, as that call left it
  trace,         \* the catalogue routines that call ran, in order
  cout,          \* the text that call wrote to std::cout
  printed,       \* the printing just done: routine, op, operand strings
  stream,        \* the text that printing wrote to its std::ostream
  threads,       \* each thread's dispatch call in progress, step by step
  stack          \* the cells that hold the locals of the threads' calls

vars ==
  <<WITH_PRINTME, casadi_math, initialised, asserted, terminated, phase,
    lastRead, call, mem, d, trace, cout, printed, stream, threads, stack>>
startup ==
  <<WITH_PRINTME, casadi_math, initialised, asserted, terminated, phase>>
frame == <<call, mem, d, trace, cout, printed, stream>>
concurrent == <<threads, stack>>

\* the valid op codes
OpCodes == 0..(NUM_BUILT_IN_OPS - 1)

\* the operands: 0, 6 and +-2^k for k in -MaxExp..MaxExp
Vals ==
  {Zero, Q(6, 1)} \cup
  UNION {{Q(IPow(2, k), 1), Q(1, IPow(2, k)), Q(-IPow(2, k), 1),
          Q(-1, IPow(2, k))} : k \in 0..MaxExp}

\* what an output cell may hold before a call writes it
StaleVals == {Zero, Q(3, 1)}

\* the addresses <<xa, ya, fa>> a caller may pass: all distinct, f on x,
\* f on y, all three the same cell, x on y
AliasConfigs == {<<1, 2, 3>>, <<1, 2, 1>>, <<1, 2, 2>>, <<1, 1, 1>>, <<1, 1, 3>>}

\* the caller's cells before the call: x and y hold the operands, and a
\* cell of f's own holds f0
Frame(cfg, x, y, f0) ==
  [a \in {cfg[1], cfg[2], cfg[3]} |->
     IF a = cfg[1] THEN x ELSE IF a = cfg[2] THEN y ELSE f0]

NoCall ==
  [routine |-> "none", op |-> 0, xa |-> 1, ya |-> 2, fa |-> 3,
   x |-> Zero, y |-> Zero, f |-> Zero]

NoRead == [table |-> "none", size |-> 0]

\* the operand strings of a printing
Strs == {"", "a", "b"}

NoPrint == [routine |-> "none", op |-> 0, x |-> "", y |-> ""]

\* the threads that call the dispatch routines concurrently
Threads == {1, 2}

\* a thread that is in no dispatch call
IdleThread ==
  [pc |-> "idle", routine |-> "none", op |-> 0, x |-> Zero, y |-> Zero,
   f |-> Zero, mem |-> Frame(<<1, 2, 3>>, Zero, Zero, Zero),
   d |-> <<Zero, Zero>>]

\* the program before any dynamic initialisation
Start ==
  /\ casadi_math = [t \in TableNames |-> EmptyVec]
  /\ initialised = {}
  /\ asserted = {}
  /\ terminated = FALSE
  /\ phase = "static_init"
  /\ lastRead = NoRead
  /\ call = NoCall
  /\ mem = Frame(<<1, 2, 3>>, Zero, Zero, Zero)
  /\ d = <<Zero, Zero>>
  /\ trace = <<>>
  /\ cout = ""
  /\ printed = NoPrint
  /\ stream = ""
  /\ threads = [t \in Threads |-> IdleThread]
  /\ stack = [a \in {0} \cup Threads |-> Zero]

\* the build as the source stands: WITH_PRINTME is defined nowhere
Init == WITH_PRINTME = FALSE /\ Start

\* either build: WITH_PRINTME defined on the compiler's command line, or not
InitPrintme == WITH_PRINTME \in BOOLEAN /\ Start

\* the dynamic initialisation of the static data member t: the members of
\* a class template are initialised in no fixed order, each once
StaticInitialiser(t) ==
  /\ phase = "static_init"
  /\ ~terminated
  /\ t \notin initialised
  /\ LET r == Initialiser(t)
     IN  IF r.threw
           THEN /\ terminated' = TRUE
                /\ UNCHANGED <<casadi_math, initialised, asserted>>
           ELSE /\ casadi_math' = [casadi_math EXCEPT ![t] = r.ret]
                /\ initialised' = initialised \cup {t}
                /\ asserted' =
                     IF AssertsPopulated(t) THEN asserted \cup {t}
                     ELSE asserted
                /\ UNCHANGED terminated
  /\ UNCHANGED <<WITH_PRINTME, phase, lastRead, frame, concurrent>>

\* main is entered once every static data member is initialised
EnterMain ==
  /\ phase = "static_init"
  /\ ~terminated
  /\ initialised = TableNames
  /\ phase' = "main"
  /\ UNCHANGED <<WITH_PRINTME, casadi_math, initialised, asserted,
                 terminated, lastRead, frame, concurrent>>

\* the state a call leaves: the call's record and the routine's result r
Called(routine, op, cfg, m0, r) ==
  /\ call' = [routine |-> routine, op |-> op, xa |-> cfg[1], ya |-> cfg[2],
              fa |-> cfg[3], x |-> m0[cfg[1]], y |-> m0[cfg[2]],
              f |-> m0[cfg[3]]]
  /\ mem' = r.mem
  /\ d' = r.d
  /\ trace' = r.trace
  /\ cout' = r.out
  /\ UNCHANGED <<printed, stream>>

\* a caller calls funNew(op, x, y, f)
FunNewCall ==
  /\ phase = "main"
  /\ call = NoCall /\ printed = NoPrint
  /\ \E op \in OpCodes, cfg \in AliasConfigs, x \in Vals, y \in Vals,
        f0 \in StaleVals, d0 \in StaleVals :
       LET m0 == Frame(cfg, x, y, f0)
       IN  Called("funNew", op, cfg, m0,
                  funNew(op, cfg[1], cfg[2], cfg[3], m0, <<d0, d0>>))
  /\ UNCHANGED <<startup, lastRead, concurrent>>

\* a caller calls derNew(op, x, y, f, d); x, y and f are only read
DerNewCall ==
  /\ phase = "main"
  /\ call = NoCall /\ printed = NoPrint
  /\ \E op \in OpCodes, x \in Vals, y \in Vals, f \in Vals,
        d0 \in StaleVals :
       LET cfg == <<1, 2, 3>>
           m0 == Frame(cfg, x, y, f)
       IN  Called("derNew", op, cfg, m0,
                  derNew(op, cfg[1], cfg[2], cfg[3], m0, <<d0, d0>>))
  /\ UNCHANGED <<startup, lastRead, concurrent>>

\* a caller calls derFNew(op, x, y, f, d)
DerFNewCall ==
  /\ phase = "main"
  /\ call = NoCall /\ printed = NoPrint
  /\ \E op \in OpCodes, cfg \in AliasConfigs, x \in Vals, y \in Vals,
        f0 \in StaleVals, d0 \in StaleVals, ff0 \in StaleVals :
       LET m0 == Frame(cfg, x, y, f0)
       IN  Called("derFNew", op, cfg, m0,
                  derFNew(op, cfg[1], cfg[2], cfg[3], m0, <<d0, d0>>, ff0))
  /\ UNCHANGED <<startup, lastRead, concurrent>>

\* a caller calls funE[op](x, y) and stores the value returned in f
FunECall ==
  /\ phase = "main"
  /\ call = NoCall /\ printed = NoPrint
  /\ \E op \in OpCodes, x \in Vals, y \in Vals, ret0 \in StaleVals :
       LET cfg == <<1, 2, 3>>
           m0 == Frame(cfg, x, y, Zero)
           r == CallFunTE(casadi_math.funE[op], x, y, ret0)
       IN  Called("funE", op, cfg, m0,
                  [mem |-> [m0 EXCEPT ![3] = r.ret], d |-> <<Zero, Zero>>,
                   out |-> r.out, trace |-> r.trace])
  /\ UNCHANGED <<startup, lastRead, concurrent>>

\* a caller calls print[op](stream, x, y) on an empty stream
PrintCall ==
  /\ phase = "main"
  /\ call = NoCall /\ printed = NoPrint
  /\ \E op \in OpCodes, x \in Strs, y \in Strs :
       /\ printed' = [routine |-> "print", op |-> op, x |-> x, y |-> y]
       /\ stream' = CallPrintFunT(casadi_math.print[op], "", x, y)
  /\ UNCHANGED <<startup, lastRead, call, mem, d, trace, cout, concurrent>>

\* printing by parts, as the comment on BinaryOperation<I>::print spells
\* it: printPre[op](stream); stream << x; printSep[op](stream);
\* stream << y; printPost[op](stream)
PrintByParts(op, stream0, x, y) ==
  LET s1 == CallPrintCompFunT(casadi_math.printPre[op], stream0)
      s2 == s1 \o x
      s3 == CallPrintCompFunT(casadi_math.printSep[op], s2)
      s4 == s3 \o y
  IN  CallPrintCompFunT(casadi_math.printPost[op], s4)

\* a caller prints by parts on an empty stream
PrintPartsCall ==
  /\ phase = "main"
  /\ call = NoCall /\ printed = NoPrint
  /\ \E op \in OpCodes, x \in Strs, y \in Strs :
       /\ printed' = [routine |-> "parts", op |-> op, x |-> x, y |-> y]
       /\ stream' = PrintByParts(op, "", x, y)
  /\ UNCHANGED <<startup, lastRead, call, mem, d, trace, cout, concurrent>>

\* the caller is done with the results: its cells, d and its stream go out
\* of scope, and what was written to std::cout has been shown
Return ==
  /\ call # NoCall \/ printed # NoPrint
  /\ call' = NoCall
  /\ mem' = Frame(<<1, 2, 3>>, Zero, Zero, Zero)
  /\ d' = <<Zero, Zero>>
  /\ trace' = <<>>
  /\ cout' = ""
  /\ printed' = NoPrint
  /\ stream' = ""
  /\ UNCHANGED <<startup, lastRead, concurrent>>

Next ==
  \/ \E t \in TableNames : StaticInitialiser(t)
  \/ EnterMain
  \/ FunNewCall
  \/ DerNewCall
  \/ DerFNewCall
  \/ FunECall
  \/ PrintCall
  \/ PrintPartsCall
  \/ Return

Spec == Init /\ [][Next]_vars

SpecPrintme == InitPrintme /\ [][Next]_vars

----------------------------------------------------------------------------
(* Start-up with clients.  casadi_math<T>'s tables are public static data  *)
(* members behind no accessor: a client reads casadi_math<T>::t[op]        *)
(* directly, from the dynamic initialiser of a static object of its own    *)
(* (before main) or from a thread (after).                                 *)

\* a client reads an entry of table t and sees the vector as it is now
ReadTable(t) ==
  /\ ~terminated
  /\ lastRead' = [table |-> t, size |-> Size(casadi_math[t])]
  /\ UNCHANGED <<startup, frame, concurrent>>

NextStartup ==
  \/ \E t \in TableNames : StaticInitialiser(t)
  \/ EnterMain
  \/ \E t \in TableNames : ReadTable(t)

SpecStartup == Init /\ [][NextStartup]_vars

----------------------------------------------------------------------------
(* Concurrent callers.  Each thread calls funNew, derNew or derFNew on     *)
(* cells of its own, and the calls interleave statement by statement: the  *)
(* call of fcn, the call of der, and derFNew's closing f = ff.  What the   *)
(* threads share is the static tables, std::cout and the address space in  *)
(* which the locals of their calls live.                                   *)

\* the op codes and operands of the threads' calls
ThreadOps == {ADD, DIV, TANH, PRINTME}
ThreadVals == {One, Two}

\* mutant of derFNew_ff: ff is declared static, one cell for every call
derFNew_ff_Static(t) == 0

\* the cell of the local T ff of the call of derFNew that thread t runs:
\* automatic storage, a cell of the thread's own stack
derFNew_ff(t) == t

\* thread t enters funNew(op, x, y, f), derNew(op, x, y, f, d) or
\* derFNew(op, x, y, f, d) on its own cells 1, 2, 3 and its own d
ThreadCall(t) ==
  /\ phase = "main"
  /\ threads[t].pc = "idle"
  /\ \E routine \in {"funNew", "derNew", "derFNew"}, op \in ThreadOps,
        x \in ThreadVals, y \in ThreadVals, f \in ThreadVals :
       /\ routine # "derNew" => f = One
       /\ threads' = [threads EXCEPT ![t] =
            [pc |-> "switch", routine |-> routine, op |-> op, x |-> x,
             y |-> y, f |-> f, mem |-> Frame(<<1, 2, 3>>, x, y, f),
             d |-> <<Zero, Zero>>]]
  /\ UNCHANGED <<startup, lastRead, frame, stack>>

\* thread t, in funNew or derFNew, runs its case's call of fcn: on f in
\* funNew, on the local ff in derFNew
ThreadFcn(t) ==
  LET th == threads[t]
      ffa == derFNew_ff(t)
  IN  /\ th.pc = "switch"
      /\ th.routine \in {"funNew", "derFNew"}
      /\ IF th.routine = "funNew"
           THEN LET r == BinaryOperation_fcn_double(funNew_fcn(th.op), 1, 2,
                                                    3, th.mem)
                IN  /\ threads' = [threads EXCEPT ![t].mem = r.mem,
                                                  ![t].pc = "done"]
                    /\ cout' = cout \o r.out
                    /\ UNCHANGED stack
           ELSE LET r == BinaryOperation_fcn_double(
                           derFNew_fcn(th.op), 1, 2, LocalCell,
                           WithLocal(th.mem, stack[ffa]))
                IN  /\ threads' = [threads EXCEPT ![t].pc = "der"]
                    /\ stack' = [stack EXCEPT ![ffa] = r.mem[LocalCell]]
                    /\ cout' = cout \o r.out
      /\ UNCHANGED <<startup, lastRead, call, mem, d, trace, printed, stream>>

\* thread t runs its case's call of der: on f in derNew, on ff in derFNew
ThreadDer(t) ==
  LET th == threads[t]
      ffa == derFNew_ff(t)
  IN  /\ \/ th.pc = "switch" /\ th.routine = "derNew"
         \/ th.pc = "der"
      /\ IF th.routine = "derNew"
           THEN threads' = [threads EXCEPT
                  ![t].d = BinaryOperation_der(derNew_der(th.op), th.mem[1],
                                               th.mem[2], th.mem[3], th.d),
                  ![t].pc = "done"]
           ELSE threads' = [threads EXCEPT
                  ![t].d = BinaryOperation_der(derFNew_der(th.op), th.mem[1],
                                               th.mem[2], stack[ffa], th.d),
                  ![t].pc = "copy"]
      /\ UNCHANGED <<startup, lastRead, frame, stack>>

\* thread t, in derFNew, runs f = ff
ThreadCopy(t) ==
  /\ threads[t].pc = "copy"
  /\ threads' = [threads EXCEPT ![t].mem[3] = stack[derFNew_ff(t)],
                                ![t].pc = "done"]
  /\ UNCHANGED <<startup, lastRead, frame, stack>>

\* thread t returns from its call: the caller drops the results, and the
\* lifetime of derFNew's ff ends (no one reads what its cell then holds)
ThreadReturn(t) ==
  /\ threads[t].pc = "done"
  /\ threads' = [threads EXCEPT ![t] = IdleThread]
  /\ stack' = IF threads[t].routine = "derFNew"
                THEN [stack EXCEPT ![derFNew_ff(t)] = Zero]
                ELSE stack
  /\ UNCHANGED <<startup, lastRead, frame>>

NextThreads ==
  \/ \E t \in TableNames : StaticInitialiser(t)
  \/ EnterMain
  \/ \E t \in Threads : ThreadCall(t)
  \/ \E t \in Threads : ThreadFcn(t)
  \/ \E t \in Threads : ThreadDer(t)
  \/ \E t \in Threads : ThreadCopy(t)
  \/ \E t \in Threads : ThreadReturn(t)

SpecThreads == Init /\ [][NextThreads]_vars

----------------------------------------------------------------------------
(* The claims *)

\* the tables that hold function pointers
DispatchTables == {"print", "printPre", "printSep", "printPost", "funE"}

\* the call just made is a call of derNew or derFNew
IsPartialsCall == call.routine \in {"derNew", "derFNew"}

\* what funNew writes to f for operands x, y held in cells of their own
EvalOf(op, x, y) ==
  funNew(op, 1, 2, 3, Frame(<<1, 2, 3>>, x, y, Zero), <<Zero, Zero>>).mem[3]

\* what derNew (given f) or derFNew leaves in d for operands x, y held in
\* cells of their own and an output array holding d0
PartialsOf(routine, op, x, y, f, d0) ==
  LET m0 == Frame(<<1, 2, 3>>, x, y, f)
  IN  IF routine = "derNew" THEN derNew(op, 1, 2, 3, m0, <<d0, d0>>).d
      ELSE derFNew(op, 1, 2, 3, m0, <<d0, d0>>, Zero).d

\* C1: after derNew or derFNew is called with op = PRINTME, the partials
\* are d[0] = 1 and d[1] = 0, whatever x, y and f are.  (The claim as the
\* spec states it; the code calls BinaryOperation<TANH>::der here.)
C1_PrintmePartialsAreOneZero ==
  (IsPartialsCall /\ call.op = PRINTME) => d = <<One, Zero>>

\* C2: in a call of derFNew, the first routine invoked is the evaluator
\* BinaryOperation<op>::fcn on the caller's (x, y), the second the
\* derivative routine on the same (x, y), and the f the derivative routine
\* receives is the value that evaluator just wrote, which is also what the
\* caller gets back in f.
C2_EvalBeforePartialsOnFreshF ==
  call.routine = "derFNew" =>
    /\ Len(trace) = 2
    /\ trace[1] = FcnCall(call.op, call.x, call.y,
                          BinaryOperation_fcn(call.op, call.x, call.y))
    /\ trace[2].routine = "der"
    /\ trace[2].x = call.x /\ trace[2].y = call.y
    /\ trace[2].f = trace[1].f
    /\ mem[call.fa] = trace[1].f

\* C2 witness: derFNew was called for an op whose partials use f (DIV, EXP,
\* INV, TANH), the caller's f cell held another value than the one
\* computed, and the derivative routine got the computed one.
C2_Witness ==
  /\ call.routine = "derFNew"
  /\ call.op \in {DIV, EXP, INV, TANH}
  /\ call.f # mem[call.fa]
  /\ Len(trace) = 2
  /\ trace[2].f = mem[call.fa]

\* C3: a call of derFNew whose f shares its cell with x, with y or with
\* both leaves in f and in d what the call on three distinct cells holding
\* the same operands leaves, whatever those cells of f and d held before.
C3_AliasedCallAgreesWithDistinct ==
  call.routine = "derFNew" =>
    \A f0 \in StaleVals, d0 \in StaleVals, ff0 \in StaleVals :
      LET ref == derFNew(call.op, 1, 2, 3,
                         Frame(<<1, 2, 3>>, call.x, call.y, f0),
                         <<d0, d0>>, ff0)
      IN  mem[call.fa] = ref.mem[3] /\ d = ref.d

\* C3 witness: derFNew(DIV) was called with f on y's cell (x apart), and
\* the result written to f differs from the y that cell held.
C3_Witness ==
  /\ call.routine = "derFNew"
  /\ call.op = DIV
  /\ call.fa = call.ya /\ call.xa # call.ya
  /\ mem[call.fa] # call.y
  /\ d = <<Divide(One, call.y), Divide(Neg(Divide(call.x, call.y)), call.y)>>

\* C4: after derNew or derFNew is called with op = COSH, d[0] = sinh(x)
\* and d[1] = 0.  (The claim as the spec states it; the code's rule is
\* d[0] = -sinh(x).)
C4_CoshPartialIsSinh ==
  (IsPartialsCall /\ call.op = COSH) => d = <<Sinh(call.x), Zero>>

\* C5 as claimed: for every op whose isCommutative entry is true, funNew
\* gives the same f for (x, y) and for (y, x).
C5_CommutativeFlagSound_AsClaimed ==
  (call.routine = "funNew" /\ casadi_math.isCommutative[call.op]) =>
    mem[call.fa] = EvalOf(call.op, call.y, call.x)

\* C5 as amended: for every op with two dependencies (ndeps entry 2) whose
\* isCommutative entry is true, funNew gives the same f for (x, y) and for
\* (y, x).
C5_CommutativeFlagSound ==
  (/\ call.routine = "funNew"
   /\ casadi_math.ndeps[call.op] = 2
   /\ casadi_math.isCommutative[call.op]) =>
    mem[call.fa] = EvalOf(call.op, call.y, call.x)

\* C5 witness: funNew was called for a binary op flagged commutative on
\* two different operands.
C5_Witness ==
  /\ call.routine = "funNew"
  /\ call.op = FMIN
  /\ casadi_math.ndeps[call.op] = 2
  /\ casadi_math.isCommutative[call.op]
  /\ call.x # call.y
  /\ mem[call.fa] = EvalOf(call.op, call.y, call.x)

\* C6: whenever funNew is called for an op whose f00_is_zero entry is true
\* on (0, 0), or whose f0x_is_zero entry is true on (0, y) with y # 0, or
\* whose fx0_is_zero entry is true on (x, 0) with x # 0, the f it writes is
\* exactly zero.
C6_ZeroFlagsSound ==
  call.routine = "funNew" =>
    LET op == call.op
        f == mem[call.fa]
    IN  /\ (casadi_math.f00_is_zero[op] /\ call.x = Zero /\ call.y = Zero)
             => f = Zero
        /\ (casadi_math.f0x_is_zero[op] /\ call.x = Zero /\ call.y # Zero)
             => f = Zero
        /\ (casadi_math.fx0_is_zero[op] /\ call.x # Zero /\ call.y = Zero)
             => f = Zero

\* C6 witness: funNew(DIV, 0, y) was called with y # 0, DIV's f0x_is_zero
\* entry is true, and f is zero.
C6_Witness ==
  /\ call.routine = "funNew"
  /\ call.op = DIV
  /\ casadi_math.f0x_is_zero[DIV]
  /\ call.x = Zero /\ call.y # Zero
  /\ mem[call.fa] = Zero

\* C7: every dispatch table (print, printPre, printSep, printPost, funE)
\* that has been initialised was built by a function that asserted that
\* each of its entries was populated.  (The claim as the spec states it;
\* only getFunE has the assertion.)
C7_EveryDispatchTableAsserted ==
  \A t \in DispatchTables : t \in initialised => t \in asserted

\* C8: every table that has been initialised has exactly NUM_BUILT_IN_OPS
\* entries, indexed 0..NUM_BUILT_IN_OPS-1, none of the function tables'
\* entries is null, and the switches of funNew, derNew and derFNew have a
\* case for every op code below NUM_BUILT_IN_OPS.
C8_TablesComplete ==
  /\ \A t \in initialised :
       /\ Size(casadi_math[t]) = NUM_BUILT_IN_OPS
       /\ DOMAIN casadi_math[t] = 0..(NUM_BUILT_IN_OPS - 1)
  /\ \A t \in initialised \cap DispatchTables :
       \A i \in DOMAIN casadi_math[t] : casadi_math[t][i] # Null
  /\ phase = "main" => initialised = TableNames
  /\ \A op \in 0..(NUM_BUILT_IN_OPS - 1) :
       op \in funNew_cases /\ op \in derNew_cases /\ op \in derFNew_cases

\* C8 witness: main has been entered with all ten tables initialised and a
\* dispatch through the last op code's case has run.
C8_Witness ==
  /\ phase = "main"
  /\ initialised = TableNames
  /\ casadi_math.print[PRINTME] = <<"BinaryOperation", PRINTME, "print">>
  /\ casadi_math.funE[PRINTME] = <<"BinaryOperationE", PRINTME, "fcn">>
  /\ call.routine = "derFNew" /\ call.op = PRINTME /\ Len(trace) = 2

\* C9: every initialised table holds what its initialiser built (it is
\* initialised once and not written again), and no client has read a
\* table before that table's initialisation completed: every read saw all
\* NUM_BUILT_IN_OPS entries.  (The claim as the spec states it; the code
\* has no one-shot guard in front of the tables.)
C9_InitialisedOnceBeforeAnyRead ==
  /\ \A t \in TableNames :
       casadi_math[t] =
         IF t \in initialised THEN Initialiser(t).ret ELSE EmptyVec
  /\ lastRead # NoRead => lastRead.size = NUM_BUILT_IN_OPS

\* C10: after derNew or derFNew is called for a unary op, d[1] = 0 and
\* d[0] is what the same routine yields for the same x (and f) with any
\* other y.
C10_UnaryPartialsIgnoreY ==
  (IsPartialsCall /\ call.op \in UnarySpecialised) =>
    /\ d[2] = Zero
    /\ \A y2 \in Vals, d0 \in StaleVals :
         LET other == PartialsOf(call.routine, call.op, call.x, y2, call.f,
                                 d0)
         IN  other[1] = d[1] /\ other[2] = Zero

\* C10 witness: derNew was called for the unary op TANH with x, y and f
\* all different and nonzero, and left d = <<1 - f*f, 0>>.
C10_Witness ==
  /\ call.routine = "derNew"
  /\ call.op = TANH
  /\ call.y # Zero /\ call.y # call.x /\ call.f # call.y /\ call.f # Zero
  /\ d = <<Minus(One, Times(call.f, call.f)), Zero>>

\* what the printPre, printSep and printPost entries of op write
PrefixOf(op) == CallPrintCompFunT(casadi_math.printPre[op], "")
SeparatorOf(op) == CallPrintCompFunT(casadi_math.printSep[op], "")
PostfixOf(op) == CallPrintCompFunT(casadi_math.printPost[op], "")

\* C11: print[op](stream, x, y) writes prefix x postfix, without y, when op
\* is unary (ndeps entry 1) and prefix x separator y postfix when op is
\* binary; ADD on a, b writes "(a+b)", SQRT on a writes "sqrt(a)" and INV on
\* a writes "(1/a)".
C11_PrintGrammar ==
  printed.routine = "print" =>
    LET op == printed.op
        x == printed.x
        y == printed.y
    IN  /\ casadi_math.ndeps[op] = 1 =>
             stream = PrefixOf(op) \o x \o PostfixOf(op)
        /\ casadi_math.ndeps[op] = 2 =>
             stream = PrefixOf(op) \o x \o SeparatorOf(op) \o y \o PostfixOf(op)
        /\ (op = ADD /\ x = "a" /\ y = "b") => stream = "(a+b)"
        /\ (op = SQRT /\ x = "a") => stream = "sqrt(a)"
        /\ (op = INV /\ x = "a") => stream = "(1/a)"

\* C11 witness: print[SQRT] was called on "a" and a non-empty y, and wrote
\* "sqrt(a)".
C11_Witness ==
  /\ printed.routine = "print"
  /\ printed.op = SQRT /\ printed.x = "a" /\ printed.y = "b"
  /\ casadi_math.ndeps[SQRT] = 1
  /\ stream = "sqrt(a)"

\* C12: for every op code, unary or binary, print[op](stream, x, y) writes
\* what printPre[op](stream); stream << x; printSep[op](stream);
\* stream << y; printPost[op](stream) writes.  (The claim as the spec and
\* the comment on BinaryOperation<I>::print state it; the primary
\* template's print leaves y out.)
C12_PrintEqualsParts ==
  printed.routine = "print" =>
    stream = PrintByParts(printed.op, "", printed.x, printed.y)

\* C13: the printSep entry of op writes nothing exactly when ndeps[op] = 1,
\* and for every op with ndeps[op] = 2 the separator is non-empty and print
\* writes both operand strings, x before the separator and y after it.
C13_SeparatorMatchesArity ==
  /\ \A op \in OpCodes :
       ({"printSep", "ndeps"} \subseteq initialised) =>
         ((SeparatorOf(op) = "") <=> (casadi_math.ndeps[op] = 1))
  /\ (printed.routine = "print" /\ casadi_math.ndeps[printed.op] = 2) =>
       /\ SeparatorOf(printed.op) # ""
       /\ Len(stream) = Len(PrefixOf(printed.op)) + Len(printed.x)
                          + Len(SeparatorOf(printed.op)) + Len(printed.y)
                          + Len(PostfixOf(printed.op))
       /\ stream = PrefixOf(printed.op) \o printed.x
                     \o SeparatorOf(printed.op) \o printed.y
                     \o PostfixOf(printed.op)

\* C13 witness: print[POW] was called on "a" and "b" and wrote "pow(a,b)",
\* and the separator of the unary NEG is empty.
C13_Witness ==
  /\ printed.routine = "print"
  /\ printed.op = POW /\ printed.x = "a" /\ printed.y = "b"
  /\ casadi_math.ndeps[POW] = 2
  /\ SeparatorOf(POW) = ","
  /\ stream = "pow(a,b)"
  /\ casadi_math.ndeps[NEG] = 1 /\ SeparatorOf(NEG) = ""

\* C14: once the isCommutative table is initialised, its entry is true for
\* ADD, MUL, FMIN and FMAX and false for SUB, DIV, POW, CONSTPOW, EQUALITY
\* and PRINTME.
C14_CommutativeTable ==
  "isCommutative" \in initialised =>
    /\ \A op \in {ADD, MUL, FMIN, FMAX} : casadi_math.isCommutative[op]
    /\ \A op \in {SUB, DIV, POW, CONSTPOW, EQUALITY, PRINTME} :
         ~casadi_math.isCommutative[op]

\* C14 witness: main runs with the table initialised, ADD's entry true and
\* EQUALITY's false.
C14_Witness ==
  /\ phase = "main"
  /\ "isCommutative" \in initialised
  /\ casadi_math.isCommutative[ADD]
  /\ ~casadi_math.isCommutative[EQUALITY]

\* C15: once the ndeps table is initialised, its entry is 2 exactly for
\* ADD, SUB, MUL, DIV, POW, CONSTPOW, EQUALITY, FMIN, FMAX and PRINTME and
\* 1 for every other op code.
C15_NdepsTable ==
  "ndeps" \in initialised =>
    \A op \in OpCodes :
      /\ casadi_math.ndeps[op] \in {1, 2}
      /\ (casadi_math.ndeps[op] = 2) <=>
           (op \in {ADD, SUB, MUL, DIV, POW, CONSTPOW, EQUALITY, FMIN, FMAX,
                    PRINTME})

\* C15 witness: main runs with the table initialised, PRINTME's entry 2 and
\* TANH's entry 1.
C15_Witness ==
  /\ phase = "main"
  /\ "ndeps" \in initialised
  /\ casadi_math.ndeps[PRINTME] = 2
  /\ casadi_math.ndeps[TANH] = 1

\* exact arithmetic on the rationals n/d that operands are, for stating
\* what a result should be: a <= b, and the integers below and above a
RatLeq(a, b) == a[2] * b[3] <= b[2] * a[3]
RatFloor(a) == CHOOSE k \in -(Abs(a[2]) + 1)..(Abs(a[2]) + 1) :
                 k * a[3] <= a[2] /\ a[2] < (k + 1) * a[3]
RatCeil(a) == CHOOSE k \in -(Abs(a[2]) + 1)..(Abs(a[2]) + 1) :
                (k - 1) * a[3] < a[2] /\ a[2] <= k * a[3]

\* C16: funNew on exact operands x, y writes to f: ADD x+y, SUB x-y, MUL
\* x*y, DIV x/y (y # 0), NEG -x, INV 1/x (x # 0), STEP 1 if x >= 0 else 0,
\* EQUALITY 1 if x = y else 0, FMIN the smaller and FMAX the larger of x
\* and y, FLOOR and CEIL the integers next below and above x, PRINTME x;
\* and for a unary op the f written is the same for every other y.
C16_FunNewValues ==
  call.routine = "funNew" =>
    LET op == call.op
        x == call.x
        y == call.y
        f == mem[call.fa]
    IN  /\ op = ADD => f = Q(x[2] * y[3] + y[2] * x[3], x[3] * y[3])
        /\ op = SUB => f = Q(x[2] * y[3] - y[2] * x[3], x[3] * y[3])
        /\ op = MUL => f = Q(x[2] * y[2], x[3] * y[3])
        /\ (op = DIV /\ y # Zero) => f = Q(x[2] * y[3], x[3] * y[2])
        /\ op = NEG => f = Q(-x[2], x[3])
        /\ (op = INV /\ x # Zero) => f = Q(x[3], x[2])
        /\ op = STEP => f = (IF x[2] >= 0 THEN One ELSE Zero)
        /\ op = EQUALITY => f = (IF x = y THEN One ELSE Zero)
        /\ op = FMIN => f = (IF RatLeq(x, y) THEN x ELSE y)
        /\ op = FMAX => f = (IF RatLeq(x, y) THEN y ELSE x)
        /\ op = FLOOR => f = Q(RatFloor(x), 1)
        /\ op = CEIL => f = Q(RatCeil(x), 1)
        /\ op = PRINTME => f = x
        /\ op \in UnarySpecialised =>
             \A y2 \in Vals : EvalOf(op, x, y2) = f

\* C16 witness: funNew(FMIN, x, y, f) was called with y < x on cells of
\* their own and wrote y.
C16_Witness ==
  /\ call.routine = "funNew"
  /\ call.op = FMIN
  /\ call.fa # call.xa /\ call.fa # call.ya /\ call.xa # call.ya
  /\ call.x = Q(6, 1) /\ call.y = Q(-1, 2)
  /\ mem[call.fa] = Q(-1, 2)

\* C17: with f the value of op at (x, y) -- the f derFNew computes, or the
\* f handed to derNew when it is that value -- the partials are: ADD
\* (1, 1), SUB (1, -1), MUL (y, x), DIV (1/y, -f/y) (y # 0), NEG (-1, 0),
\* EXP (f, 0), INV (-f*f, 0) (x # 0), TANH (1 - f*f, 0), STEP, FLOOR, CEIL
\* and EQUALITY (0, 0); derFNew(DIV, 6, 2) gives f = 3 and d = (1/2, -3/2),
\* and TANH at x = 0, f = 0 gives d[0] = 1.
C17_PartialsValues ==
  (/\ IsPartialsCall
   /\ call.routine = "derNew" => call.f = EvalOf(call.op, call.x, call.y)) =>
    LET op == call.op
        x == call.x
        y == call.y
        f == mem[call.fa]
    IN  /\ op = ADD => d = <<One, One>>
        /\ op = SUB => d = <<One, Q(-1, 1)>>
        /\ op = MUL => d = <<y, x>>
        /\ (op = DIV /\ y # Zero) =>
             d = <<Q(y[3], y[2]), Q(-f[2] * y[3], f[3] * y[2])>>
        /\ op = NEG => d = <<Q(-1, 1), Zero>>
        /\ op = EXP => d = <<f, Zero>>
        /\ (op = INV /\ x # Zero) => d = <<Q(-f[2] * f[2], f[3] * f[3]), Zero>>
        /\ op = TANH => d = <<Minus(One, Times(f, f)), Zero>>
        /\ op \in {STEP, FLOOR, CEIL, EQUALITY} => d = <<Zero, Zero>>
        /\ (call.routine = "derFNew" /\ op = DIV /\ x = Q(6, 1) /\ y = Two) =>
             f = Q(3, 1) /\ d = <<Q(1, 2), Q(-3, 2)>>
        /\ (op = TANH /\ x = Zero) => f = Zero /\ d[1] = One

\* C17 witness: derFNew(DIV, 6, 2) was called and left f = 3 and
\* d = (1/2, -3/2).
C17_Witness ==
  /\ call.routine = "derFNew"
  /\ call.op = DIV /\ call.x = Q(6, 1) /\ call.y = Two
  /\ mem[call.fa] = Q(3, 1)
  /\ d = <<Q(1, 2), Q(-3, 2)>>

\* C18: the partials of FMIN are d[0] = 1 if x <= y else 0 and d[1] =
\* 1 - d[0], those of FMAX d[0] = 1 if x >= y else 0 and d[1] = 1 - d[0]:
\* each is 0 or 1, exactly one of them is 1, and on a tie x = y both ops
\* give (1, 0).
C18_FminFmaxPartials ==
  (IsPartialsCall /\ call.op \in {FMIN, FMAX}) =>
    LET x == call.x
        y == call.y
        first == IF call.op = FMIN THEN RatLeq(x, y) ELSE RatLeq(y, x)
    IN  /\ d[1] = (IF first THEN One ELSE Zero)
        /\ d[2] = (IF first THEN Zero ELSE One)
        /\ d[1] \in {Zero, One} /\ d[2] \in {Zero, One}
        /\ (d[1] = One) # (d[2] = One)
        /\ x = y => d = <<One, Zero>>

\* C18 witness: derFNew(FMAX, x, y) was called with x < y and left
\* d = (0, 1).
C18_Witness ==
  /\ call.routine = "derFNew"
  /\ call.op = FMAX
  /\ call.x = Q(1, 2) /\ call.y = Two
  /\ d = <<Zero, One>>

\* C19: in a build with WITH_PRINTME, every evaluation of PRINTME through
\* funNew, funE or derFNew leaves f = x and writes to std::cout exactly one
\* line, "|> y : x" with the y and x the caller supplied; in a build
\* without it, no dispatch call writes anything to std::cout.  (The claim
\* as the spec states it; fcn<double> assigns f before it writes y.)
C19_PrintmeDiagnostic ==
  /\ (call.routine \in {"funNew", "funE", "derFNew"} /\ call.op = PRINTME) =>
       /\ mem[call.fa] = call.x
       /\ WITH_PRINTME => cout = DiagnosticLine(call.y, call.x)
  /\ ~WITH_PRINTME => cout = ""

\* what the call thread t runs gives when it runs alone: the cells and d as
\* funNew, derNew or derFNew leave them
AloneResult(routine, op, x, y, f) ==
  LET m0 == Frame(<<1, 2, 3>>, x, y, f)
      d0 == <<Zero, Zero>>
  IN  CASE routine = "funNew" -> funNew(op, 1, 2, 3, m0, d0)
        [] routine = "derNew" -> derNew(op, 1, 2, 3, m0, d0)
        [] routine = "derFNew" -> derFNew(op, 1, 2, 3, m0, d0, Zero)

\* C20: once the tables are initialised, whatever the interleaving of the
\* threads' calls, a call that has run to its end left in its own cells
\* and its own d what the same call leaves when run alone, and the tables
\* hold what their initialisers built.
C20_ConcurrentCallsAsAlone ==
  /\ \A t \in Threads :
       threads[t].pc = "done" =>
         LET th == threads[t]
             alone == AloneResult(th.routine, th.op, th.x, th.y, th.f)
         IN  th.mem = alone.mem /\ th.d = alone.d
  /\ phase = "main" =>
       \A t \in TableNames : casadi_math[t] = Initialiser(t).ret

\* C20 witness: thread 1 ended a call of derFNew(DIV, 2, 1) with f = 2 and
\* d = (1, -2) although thread 2, inside derFNew(TANH, 1, ...), had written
\* its own ff and not yet copied it.
C20_Witness ==
  /\ threads[1].pc = "done"
  /\ threads[1].routine = "derFNew" /\ threads[1].op = DIV
  /\ threads[1].x = Two /\ threads[1].y = One
  /\ threads[1].mem[3] = Two
  /\ threads[1].d = <<One, Q(-2, 1)>>
  /\ threads[2].pc = "copy"
  /\ threads[2].routine = "derFNew" /\ threads[2].op = TANH
  /\ stack[derFNew_ff(2)] # stack[derFNew_ff(1)]

\* C21: a call of derFNew(op, x, y, f, d) on distinct cells leaves in f and
\* in d what funNew(op, x, y, f) followed by derNew(op, x, y, f, d) leaves
\* there, for every op code, PRINTME and COSH included, and whatever f and
\* d held before.
C21_DerFNewIsFunNewThenDerNew ==
  (/\ call.routine = "derFNew"
   /\ call.xa # call.ya /\ call.fa # call.xa /\ call.fa # call.ya) =>
    \A d0 \in StaleVals :
      LET m0 == Frame(<<1, 2, 3>>, call.x, call.y, call.f)
          r1 == funNew(call.op, 1, 2, 3, m0, <<d0, d0>>)
          r2 == derNew(call.op, 1, 2, 3, r1.mem, r1.d)
      IN  /\ mem[call.fa] = r2.mem[3]
          /\ d = r2.d
          /\ mem[call.xa] = r2.mem[1] /\ mem[call.ya] = r2.mem[2]

\* C21 witness: derFNew(PRINTME, 2, y, f, d) was called on distinct cells,
\* with another value than 2 in f, and left f = 2 and d = (1 - 2*2, 0).
C21_Witness ==
  /\ call.routine = "derFNew"
  /\ call.op = PRINTME
  /\ call.xa = 1 /\ call.ya = 2 /\ call.fa = 3
  /\ call.x = Two /\ call.f # Two
  /\ mem[3] = Two
  /\ d = <<Q(-3, 1), Zero>>

\* C22: the value funE[op](x, y) returns is the value funNew(op, x, y, f)
\* writes to f: seen from a call through funE and from a call of funNew,
\* whatever the local ret of BinaryOperationE<I>::fcn held before.
C22_FunEIsFunNew ==
  /\ call.routine = "funE" =>
       mem[call.fa] = EvalOf(call.op, call.x, call.y)
  /\ call.routine = "funNew" =>
       \A ret0 \in StaleVals :
         mem[call.fa] =
           CallFunTE(casadi_math.funE[call.op], call.x, call.y, ret0).ret

\* C22 witness: funE[SUB](6, 2) was called and returned 4.
C22_Witness ==
  /\ call.routine = "funE"
  /\ call.op = SUB
  /\ call.x = Q(6, 1) /\ call.y = Two
  /\ mem[call.fa] = Q(4, 1)

=============================================================================
